---- MODULE Spec2Model ----
(***************************************************************************)
(* A model of the Mongo persistence adapter of server/mongo/src/storage.ts *)
(* (MongoAdapterBase.translateQuery / findAll and the MongoAdapter tx*     *)
(* handlers) together with the part of the document store the adapter      *)
(* drives: update operators $set, $push (with $each/$position), $pull,     *)
(* filters (equality, $in, $exists, $regex, $ne) and ordered bulk writes.  *)
(*                                                                         *)
(* Representation.  A JavaScript object is a sequence of entries (key      *)
(* order is kept, as Object.keys sees it).  A key is a path: the dotted    *)
(* string 'a.b' is the sequence <<"a", "b">>, so string concatenation      *)
(* mixin + '.' + k is <<mixin>> \o k.  A stored document is a map from     *)
(* leaf paths to values plus the set of keys holding embedded objects.     *)
(***************************************************************************)
EXTENDS Integers, Sequences, FiniteSets, TLC

VARIABLES
  store,     \* [domain -> [existing _id -> document]]
  ops,       \* number of adapter calls made so far
  lastTx,    \* the transaction handed to the last tx() call
  pre,       \* the store just before that call
  result,    \* what that call returned
  found,     \* the last findAll call and its rows
  batch,     \* in-flight bulkWrite batches: its ops and the next op to run
  reads      \* what concurrent plain reads of the document observed

vars == <<store, ops, lastTx, pre, result, found, batch, reads>>

----------------------------------------------------------------------------
(* Bounds *)

MaxOps == 2
MaxPatLen == 3
MaxStrLen == 3
MaxReads == 2

----------------------------------------------------------------------------
(* Values and objects *)

Undefined == [t |-> "undefined", s |-> "", n |-> 0, a |-> <<>>]
Str(x) == [t |-> "string", s |-> x, n |-> 0, a |-> <<>>]
Num(x) == [t |-> "number", s |-> "", n |-> x, a |-> <<>>]
Bool(x) == [t |-> "boolean", s |-> "", n |-> IF x THEN 1 ELSE 0, a |-> <<>>]
Arr(x) == [t |-> "array", s |-> "", n |-> 0, a |-> x]
\* a string whose characters matter (a name, a pattern, a regex)
Text(cs) == [t |-> "text", s |-> "", n |-> 0, a |-> cs]

Leaf(k, v) == [k |-> k, o |-> FALSE, v |-> v, m |-> <<>>]
Node(k, m) == [k |-> k, o |-> TRUE, v |-> Undefined, m |-> m]

Keys(obj) == [i \in 1..Len(obj) |-> obj[i].k]
HasKey(obj, k) == \E i \in 1..Len(obj) : obj[i].k = k
Entry(obj, k) == obj[CHOOSE i \in 1..Len(obj) : obj[i].k = k]
\* obj[k] = e : an existing key keeps its place, a new one goes last
Put(obj, e) ==
  IF HasKey(obj, e.k)
  THEN [i \in 1..Len(obj) |-> IF obj[i].k = e.k THEN e ELSE obj[i]]
  ELSE Append(obj, e)

RECURSIVE PutAll(_, _)
\* { ...obj, ...more }
PutAll(obj, more) ==
  IF more = <<>> THEN obj ELSE PutAll(Put(obj, Head(more)), Tail(more))

DollarKeys ==
  {"$set", "$push", "$pull", "$move", "$like", "$in", "$ne", "$exists",
   "$regex", "$options", "$each", "$position", "$value"}
StartsWithDollar(k) == Head(k) \in DollarKeys

----------------------------------------------------------------------------
(* The class hierarchy and the domain router (collaborators) *)

Classes == {"C", "D1", "D2", "E"}
Mixins == {"M"}
Extends(c) ==
  CASE c = "D1" -> "C"
    [] c = "D2" -> "C"
    [] c = "M" -> "C"
    [] OTHER -> "Doc"

getBaseClass(c) == IF c \in Mixins THEN Extends(c) ELSE c

getDescendants(c) ==
  CASE c = "C" -> <<"C", "D1", "D2", "M">>
    [] OTHER -> <<c>>

getDomain(c) == "task"
Domains == {"task"}

isOperator(o) ==
  Len(o) > 0 /\ \A i \in 1..Len(o) : StartsWithDollar(o[i].k)

----------------------------------------------------------------------------
(* translateQuery: the $like rewrite *)

RECURSIVE Split(_, _)
\* pattern.split(sep): the pieces between the separators
Split(cs, sep) ==
  IF \A i \in 1..Len(cs) : cs[i] # sep
  THEN <<cs>>
  ELSE LET i == CHOOSE j \in 1..Len(cs) :
                  cs[j] = sep /\ \A h \in 1..(j - 1) : cs[h] # sep
       IN <<SubSeq(cs, 1, i - 1)>> \o Split(SubSeq(cs, i + 1, Len(cs)), sep)

RECURSIVE Join(_, _)
\* parts.join(glue)
Join(parts, glue) ==
  IF Len(parts) = 1 THEN Head(parts)
  ELSE Head(parts) \o glue \o Join(Tail(parts), glue)

LikeRegex(pattern) == <<"^">> \o Join(Split(pattern, "%"), <<".", "*">>) \o <<"$">>

translateQueryField(e) ==
  IF e.o /\ Len(e.m) > 0 /\ e.m[1].k = <<"$like">>
  THEN Node(e.k, <<Leaf(<<"$regex">>, Text(LikeRegex(e.m[1].v.a))),
                   Leaf(<<"$options">>, Str("i"))>>)
  ELSE e

RECURSIVE translateFields(_, _)
\* the loop over the keys of the query
translateFields(translated, query) ==
  IF query = <<>> THEN translated
  ELSE translateFields(Put(translated, translateQueryField(Head(query))),
                       Tail(query))

\* translated._class?.$in === undefined
classInUndefined(translated) ==
  \/ ~HasKey(translated, <<"_class">>)
  \/ ~Entry(translated, <<"_class">>).o
  \/ ~HasKey(Entry(translated, <<"_class">>).m, <<"$in">>)

translateQuery(clazz, query) ==
  LET t0 == translateFields(<<>>, query)
      baseClass == getBaseClass(clazz)
      classes == getDescendants(baseClass)
      t1 == IF classInUndefined(t0)
            THEN Put(t0, Node(<<"_class">>, <<Leaf(<<"$in">>, Arr(classes))>>))
            ELSE t0
  IN IF baseClass # clazz
     THEN Put(t1, Node(<<clazz>>, <<Leaf(<<"$exists">>, Bool(TRUE))>>))
     ELSE t1

----------------------------------------------------------------------------
(* The store's side of a find: regular expressions and filters *)

Lower(c) == IF c = "A" THEN "a" ELSE IF c = "B" THEN "b" ELSE c

\* one regex atom against one character: '.' is any character, anything
\* else is itself (under option i, up to case)
AtomMatches(atom, c, ci) ==
  \/ atom = "."
  \/ atom = c
  \/ ci /\ Lower(atom) = Lower(c)

RECURSIVE MatchHere(_, _, _)
\* does the regex match a prefix of s (atoms, atom*, and the end anchor $)
MatchHere(re, s, ci) ==
  IF re = <<>> THEN TRUE
  ELSE IF Len(re) >= 2 /\ re[2] = "*"
  THEN \E k \in 0..Len(s) :
         /\ \A h \in 1..k : AtomMatches(re[1], s[h], ci)
         /\ MatchHere(SubSeq(re, 3, Len(re)), SubSeq(s, k + 1, Len(s)), ci)
  ELSE IF re[1] = "$"
  THEN s = <<>> /\ MatchHere(Tail(re), s, ci)
  ELSE /\ s # <<>>
       /\ AtomMatches(re[1], Head(s), ci)
       /\ MatchHere(Tail(re), Tail(s), ci)

\* { $regex: re, $options: opts } against the string s
RegexTest(re, opts, s) ==
  IF re # <<>> /\ Head(re) = "^"
  THEN MatchHere(Tail(re), s, opts = "i")
  ELSE \E k \in 0..Len(s) : MatchHere(re, SubSeq(s, k + 1, Len(s)), opts = "i")

FieldVal(doc, k) == IF k \in DOMAIN doc.f THEN doc.f[k] ELSE Undefined
FieldExists(doc, k) == k \in DOMAIN doc.f \/ k \in doc.objs

QueryOperators == {"$in", "$ne", "$exists", "$regex", "$options"}

\* a filter the store rejects: an operator it does not know
FilterBad(filter) ==
  \E i \in 1..Len(filter) :
    /\ filter[i].o
    /\ \E j \in 1..Len(filter[i].m) : Head(filter[i].m[j].k) \notin QueryOperators

CondHolds(doc, k, cond, c) ==
  LET val == FieldVal(doc, k)
      op == Head(c.k)
  IN CASE op = "$in" -> val.t = "string" /\ \E i \in 1..Len(c.v.a) : c.v.a[i] = val.s
       [] op = "$ne" -> val # c.v
       [] op = "$exists" -> FieldExists(doc, k) <=> (c.v.n = 1)
       [] op = "$regex" ->
            /\ val.t = "text"
            /\ RegexTest(c.v.a,
                         IF HasKey(cond, <<"$options">>)
                         THEN Entry(cond, <<"$options">>).v.s ELSE "",
                         val.a)
       [] OTHER -> TRUE

FieldMatches(doc, e) ==
  IF e.o
  THEN \A j \in 1..Len(e.m) : CondHolds(doc, e.k, e.m, e.m[j])
  ELSE LET val == FieldVal(doc, e.k)
       IN \/ val = e.v
          \/ /\ val.t = "array"
             /\ e.v.t = "string"
             /\ \E i \in 1..Len(val.a) : val.a[i] = e.v.s

Matches(doc, filter) == \A i \in 1..Len(filter) : FieldMatches(doc, filter[i])

\* collection(domain).find(filter).toArray(): the _ids of the rows
FindRows(st, clazz, query) ==
  LET filter == translateQuery(clazz, query)
      coll == st[getDomain(clazz)]
  IN IF FilterBad(filter)
     THEN [error |-> TRUE, ids |-> {}]
     ELSE [error |-> FALSE, ids |-> {id \in DOMAIN coll : Matches(coll[id], filter)}]

----------------------------------------------------------------------------
(* The store's side of a write: update operators on one document *)

NullDoc == [f |-> <<>>, objs |-> {}]

\* the field at path cannot be created: its parent holds a scalar
PathBlocked(doc, path) == Len(path) > 1 /\ <<path[1]>> \in DOMAIN doc.f

\* $set of one path; the embedded object is created when it is missing
SetField(doc, path, val) ==
  [f |-> [p \in (DOMAIN doc.f) \cup {path} |-> IF p = path THEN val ELSE doc.f[p]],
   objs |-> IF Len(path) > 1 THEN doc.objs \cup {<<path[1]>>} ELSE doc.objs]

\* arr with the elements each inserted at index position (0-based); a
\* position at or beyond the end appends
InsertAt(arr, each, position) ==
  IF position >= Len(arr) THEN arr \o each
  ELSE SubSeq(arr, 1, position) \o each \o SubSeq(arr, position + 1, Len(arr))

RECURSIVE Without(_, _)
\* arr with every element equal to v removed
Without(arr, v) ==
  IF arr = <<>> THEN <<>>
  ELSE IF Head(arr) = v THEN Without(Tail(arr), v)
  ELSE <<Head(arr)>> \o Without(Tail(arr), v)

\* one field of one update operator applied to doc: [ok, doc]
ApplyField(doc, op, e) ==
  LET val == FieldVal(doc, e.k)
      Fail == [ok |-> FALSE, doc |-> doc]
      Ok(d) == [ok |-> TRUE, doc |-> d]
  IN CASE op = "$set" ->
            IF e.o \/ PathBlocked(doc, e.k) THEN Fail
            ELSE Ok(SetField(doc, e.k, e.v))
       [] op = "$push" ->
            LET each == IF e.o THEN Entry(e.m, <<"$each">>).v.a ELSE <<e.v.s>>
                position == IF e.o /\ HasKey(e.m, <<"$position">>)
                            THEN Entry(e.m, <<"$position">>).v.n
                            ELSE Len(val.a)
            IN IF PathBlocked(doc, e.k) \/ val.t \notin {"undefined", "array"} THEN Fail
               ELSE Ok(SetField(doc, e.k, Arr(InsertAt(val.a, each, position))))
       [] op = "$pull" ->
            IF val.t = "undefined" THEN Ok(doc)
            ELSE IF val.t # "array" \/ e.o THEN Fail
            ELSE Ok(SetField(doc, e.k, Arr(Without(val.a, e.v.s))))
       [] OTHER -> Fail

RECURSIVE ApplyFields(_, _, _)
ApplyFields(r, op, fields) ==
  IF fields = <<>> \/ ~r.ok THEN r
  ELSE ApplyFields(ApplyField(r.doc, op, Head(fields)), op, Tail(fields))

\* two operators of one update may not write the same path
UpdateConflict(update) ==
  \E i, j \in 1..Len(update) :
    /\ i # j
    /\ \E x \in 1..Len(update[i].m), y \in 1..Len(update[j].m) :
         update[i].m[x].k = update[j].m[y].k

RECURSIVE ApplyOperators(_, _)
ApplyOperators(r, update) ==
  IF update = <<>> \/ ~r.ok THEN r
  ELSE LET e == Head(update)
       IN IF ~e.o \/ Head(e.k) \notin {"$set", "$push", "$pull"}
          THEN [ok |-> FALSE, doc |-> r.doc]
          ELSE ApplyOperators(ApplyFields(r, Head(e.k), e.m), Tail(update))

\* the update document applied to doc: [ok, doc]; a failed update leaves
\* the document as it was
ApplyUpdate(doc, update) ==
  IF UpdateConflict(update) THEN [ok |-> FALSE, doc |-> doc]
  ELSE LET r == ApplyOperators([ok |-> TRUE, doc |-> doc], update)
       IN IF r.ok THEN r ELSE [ok |-> FALSE, doc |-> doc]

\* collection.updateOne({ _id: id }, update): [ok, coll]
updateOne(coll, id, update) ==
  IF id \notin DOMAIN coll THEN [ok |-> TRUE, coll |-> coll]
  ELSE LET r == ApplyUpdate(coll[id], update)
       IN [ok |-> r.ok, coll |-> [coll EXCEPT ![id] = r.doc]]

----------------------------------------------------------------------------
(* MongoAdapter: each handler's translation of a transaction into the      *)
(* store call it makes                                                     *)

Call(kind, tx, updates) ==
  [call |-> kind, domain |-> getDomain(tx.objectClass), id |-> tx.objectId,
   updates |-> updates, doc |-> NullDoc, ret |-> "result"]

\* modifiedBy: tx.modifiedBy, modifiedOn: tx.modifiedOn
Stamp(tx) ==
  <<Leaf(<<"modifiedBy">>, Str(tx.modifiedBy)),
    Leaf(<<"modifiedOn">>, Num(tx.modifiedOn))>>

\* the handlers that await the store and then return {}
Discard(c) == [c EXCEPT !.ret = "empty"]

txPutBag(tx) ==
  Discard(Call("updateOne", tx,
               <<  <<Node(<<"$set">>, <<Leaf(<<tx.bag, tx.key>>, tx.value)>>)>>  >>))

txRemoveDoc(tx) == Discard(Call("deleteOne", tx, <<>>))

RECURSIVE translateMixinAttrs(_, _)
translateMixinAttrs(mixin, attributes) ==
  LET attrs == [i \in 1..Len(attributes) |->
                  LET e == attributes[i]
                  IN IF StartsWithDollar(e.k)
                     THEN Node(e.k, translateMixinAttrs(mixin, e.m))
                     ELSE [e EXCEPT !.k = <<mixin>> \o e.k]]
  IN IF Len(attributes) = 0
     THEN <<Leaf(<<mixin, "__mixin">>, Str("true"))>>
     ELSE attrs

\* a faulty reading of the position: always the head of the array
DescPositionZero(desc) == Num(0)
\* desc.$value, desc.$position
DescValue(desc) ==
  IF HasKey(desc, <<"$value">>) THEN Entry(desc, <<"$value">>).v ELSE Undefined
DescPosition(desc) ==
  IF HasKey(desc, <<"$position">>) THEN Entry(desc, <<"$position">>).v ELSE Undefined

\* faulty batches: the push submitted before the pull; no pull at all
MoveOpsPushFirst(arr, desc, tx) ==
  <<  <<Node(<<"$set">>, Stamp(tx)),
        Node(<<"$push">>,
             <<Node(arr, <<Leaf(<<"$each">>, Arr(<<DescValue(desc).s>>)),
                           Leaf(<<"$position">>, DescPosition(desc))>>)>>)>>,
      <<Node(<<"$pull">>, <<Leaf(arr, DescValue(desc))>>)>>  >>

MoveOpsNoPull(arr, desc, tx) ==
  <<  <<Node(<<"$set">>, Stamp(tx))>>,
      <<Node(<<"$set">>, Stamp(tx)),
        Node(<<"$push">>,
             <<Node(arr, <<Leaf(<<"$each">>, Arr(<<DescValue(desc).s>>)),
                           Leaf(<<"$position">>, DescPosition(desc))>>)>>)>>  >>

\* the two updateOne operations of the $move batch, in submission order
MoveOps(arr, desc, tx) ==
  <<  <<Node(<<"$pull">>, <<Leaf(arr, DescValue(desc))>>)>>,
      <<Node(<<"$set">>, Stamp(tx)),
        Node(<<"$push">>,
             <<Node(arr, <<Leaf(<<"$each">>, Arr(<<DescValue(desc).s>>)),
                           Leaf(<<"$position">>, DescPosition(desc))>>)>>)>>  >>

txMixin(tx) ==
  IF isOperator(tx.attributes)
  THEN IF tx.attributes[1].k = <<"$move">>
       THEN LET keyval == Entry(tx.attributes, <<"$move">>).m
                arr == <<tx.mixin>> \o (IF keyval = <<>> THEN <<"undefined">> ELSE keyval[1].k)
            IN IF ~HasKey(keyval, arr)
               THEN Call("TypeError", tx, <<>>)
               ELSE Call("bulkWrite", tx, MoveOps(arr, Entry(keyval, arr).m, tx))
       ELSE Call("updateOne", tx,
                 << Put(translateMixinAttrs(tx.mixin, tx.attributes),
                        Node(<<"$set">>, Stamp(tx))) >>)
  ELSE Call("updateOne", tx,
            << <<Node(<<"$set">>,
                      PutAll(translateMixinAttrs(tx.mixin, tx.attributes), Stamp(tx)))>> >>)

\* TxProcessor.createDoc2Doc followed by translateDoc
createDoc2Doc(tx) ==
  LET fields == PutAll(<<Leaf(<<"_class">>, Str(tx.objectClass)),
                         Leaf(<<"space">>, Str(tx.objectSpace))>>
                       \o Stamp(tx), tx.attributes)
  IN [f |-> [p \in {fields[i].k : i \in 1..Len(fields)} |-> Entry(fields, p).v],
      objs |-> {}]

txCreateDoc(tx) ==
  [call |-> "insertOne", domain |-> getDomain(tx.objectClass), id |-> tx.objectId,
   updates |-> <<>>, doc |-> createDoc2Doc(tx), ret |-> "empty"]

txUpdateDoc(tx) ==
  IF isOperator(tx.operations)
  THEN IF tx.operations[1].k = <<"$move">>
       THEN LET keyval == Entry(tx.operations, <<"$move">>).m
            IN IF keyval = <<>>
               THEN Call("TypeError", tx, <<>>)
               ELSE Call("bulkWrite", tx, MoveOps(keyval[1].k, keyval[1].m, tx))
       ELSE Call(IF tx.retrieve THEN "findOneAndUpdate" ELSE "updateOne", tx,
                 << Put(tx.operations, Node(<<"$set">>, Stamp(tx))) >>)
  ELSE Call(IF tx.retrieve THEN "findOneAndUpdate" ELSE "updateOne", tx,
            << <<Node(<<"$set">>, PutAll(tx.operations, Stamp(tx)))>> >>)

\* TxProcessor.tx: dispatch on the transaction's class
txCall(tx) ==
  CASE tx._class = "TxCreateDoc" -> txCreateDoc(tx)
    [] tx._class = "TxUpdateDoc" -> txUpdateDoc(tx)
    [] tx._class = "TxRemoveDoc" -> txRemoveDoc(tx)
    [] tx._class = "TxMixin" -> txMixin(tx)
    [] tx._class = "TxPutBag" -> txPutBag(tx)

----------------------------------------------------------------------------
(* The store executing a call *)

Result(kind, present, doc) == [kind |-> kind, present |-> present, object |-> doc]
Empty == Result("empty", FALSE, NullDoc)
Thrown(kind) == Result(kind, FALSE, NullDoc)

RECURSIVE bulkWrite(_, _, _)
\* an ordered batch: the operations run in submission order and the batch
\* stops at the first one that fails
bulkWrite(coll, id, updates) ==
  IF updates = <<>> THEN [ok |-> TRUE, coll |-> coll]
  ELSE LET r == updateOne(coll, id, Head(updates))
       IN IF r.ok THEN bulkWrite(r.coll, id, Tail(updates)) ELSE r

\* the store and the handler's return value after the call ran to its end
Exec(st, c) ==
  LET coll == st[c.domain]
      With(cl) == [st EXCEPT ![c.domain] = cl]
      Out(s2, r) == [store |-> s2, result |-> r]
  IN CASE c.call = "TypeError" -> Out(st, Thrown("TypeError"))
       [] c.call = "insertOne" ->
            IF c.id \in DOMAIN coll THEN Out(st, Thrown("MongoError"))
            ELSE Out(With([i \in (DOMAIN coll) \cup {c.id} |->
                             IF i = c.id THEN c.doc ELSE coll[i]]), Empty)
       [] c.call = "deleteOne" ->
            Out(With([i \in (DOMAIN coll) \ {c.id} |-> coll[i]]), Empty)
       [] c.call = "updateOne" ->
            LET r == updateOne(coll, c.id, c.updates[1])
            IN IF ~r.ok THEN Out(st, Thrown("MongoError"))
               ELSE IF c.ret = "empty" THEN Out(With(r.coll), Empty)
               ELSE Out(With(r.coll), Result("updateResult", FALSE, NullDoc))
       [] c.call = "findOneAndUpdate" ->
            LET r == updateOne(coll, c.id, c.updates[1])
            IN IF ~r.ok THEN Out(st, Thrown("MongoError"))
               ELSE IF c.id \in DOMAIN coll
               THEN Out(With(r.coll), Result("object", TRUE, r.coll[c.id]))
               ELSE Out(st, Result("object", FALSE, NullDoc))
       [] c.call = "bulkWrite" ->
            LET r == bulkWrite(coll, c.id, c.updates)
            IN Out(With(r.coll),
                   IF r.ok THEN Result("bulkWriteResult", FALSE, NullDoc)
                   ELSE Thrown("MongoError"))

----------------------------------------------------------------------------
(* Inputs *)

Elems == {"A", "B", "C"}
MaxArr == 3
Positions == 0..(MaxArr - 1)

BaseTx(cls, id, oc, by, on) ==
  [_class |-> cls, objectId |-> id, objectClass |-> oc, objectSpace |-> "sp",
   modifiedBy |-> by, modifiedOn |-> on, operations |-> <<>>, retrieve |-> FALSE,
   mixin |-> "", attributes |-> <<>>, bag |-> "", key |-> "", value |-> Undefined]

NoTx == BaseTx("none", "", "", "", 0)

\* { $move: { [field]: { $value: v, $position: p } } }
Move(field, v, p) ==
  <<Node(<<"$move">>,
         <<Node(<<field>>, <<Leaf(<<"$value">>, Str(v)),
                             Leaf(<<"$position">>, Num(p))>>)>>)>>

NameB == Leaf(<<"name">>, Text(<<"b">>))
TitleB == Leaf(<<"title">>, Text(<<"b">>))
PushD == Node(<<"$push">>, <<Leaf(<<"items">>, Str("D"))>>)
PullA == Node(<<"$pull">>, <<Leaf(<<"items">>, Str("A"))>>)

UpdatePayloads ==
  { <<>>, <<NameB>>, <<PushD>>, <<PullA>>,
    <<Node(<<"$set">>, <<NameB>>)>>,
    <<Node(<<"$set">>, <<NameB>>), PushD>> }
  \cup {Move("items", v, p) : v \in {"A", "B"}, p \in {0, 2}}

MixinPayloads ==
  { <<>>, <<TitleB>>, <<PushD>>, <<PullA>>,
    <<Node(<<"$set">>, <<TitleB>>)>>,
    <<Node(<<"$set">>, <<>>)>>,
    <<Node(<<"$set">>, <<TitleB>>), PushD>>,
    Move("items", "A", 0) }

CreatePayloads ==
  { <<Leaf(<<"name">>, Text(<<"a">>)), Leaf(<<"items">>, Arr(<<"A", "B">>))>> }

Queries ==
  { <<>>,
    <<Leaf(<<"_class">>, Str("D1"))>>,
    <<Node(<<"_class">>, <<Leaf(<<"$in">>, Arr(<<"D1", "E">>))>>)>>,
    <<Leaf(<<"name">>, Text(<<"b">>))>>,
    <<Leaf(<<"items">>, Str("D"))>> }

\* the documents a fresh run starts from
Stored(class, name, items) ==
  [f |-> [p \in {<<"_class">>, <<"space">>, <<"modifiedBy">>, <<"modifiedOn">>,
                 <<"name">>, <<"items">>} |->
            CASE p = <<"_class">> -> Str(class)
              [] p = <<"space">> -> Str("sp")
              [] p = <<"modifiedBy">> -> Str("u0")
              [] p = <<"modifiedOn">> -> Num(0)
              [] p = <<"name">> -> Text(name)
              [] p = <<"items">> -> Arr(items)],
   objs |-> {}]

ClassOf(id) == IF id = "d1" THEN "D1" ELSE IF id = "d2" THEN "D2"
               ELSE IF id = "d3" THEN "E" ELSE "C"
TargetIds == {"d1", "d9"}

NoFind == [called |-> FALSE, clazz |-> "", query |-> <<>>, error |-> FALSE, ids |-> {}]
NoBatch == [state |-> "idle", tx |-> NoTx, updates |-> <<>>, pc |-> 0]
Batches == {"b1", "b2"}

----------------------------------------------------------------------------
(* The adapter serving one call at a time *)

Init ==
  /\ store = [d \in Domains |->
                [i \in {"d1", "d2", "d3"} |->
                   Stored(ClassOf(i), <<"a">>, <<"A", "B", "C">>)]]
  /\ ops = 0
  /\ lastTx = NoTx
  /\ pre = store
  /\ result = Empty
  /\ found = NoFind
  /\ batch = [b \in Batches |-> NoBatch]
  /\ reads = <<>>

\* MongoAdapter.tx(tx): translate, execute, return
tx(t) ==
  /\ ops < MaxOps
  /\ LET out == Exec(store, txCall(t))
     IN /\ store' = out.store
        /\ result' = out.result
  /\ lastTx' = t
  /\ pre' = store
  /\ ops' = ops + 1
  /\ found' = NoFind
  /\ UNCHANGED <<batch, reads>>

findAll(clazz, query) ==
  /\ ops < MaxOps
  /\ LET r == FindRows(store, clazz, query)
     IN found' = [called |-> TRUE, clazz |-> clazz, query |-> query,
                  error |-> r.error, ids |-> r.ids]
  /\ ops' = ops + 1
  /\ UNCHANGED <<store, lastTx, pre, result, batch, reads>>

Now == ops + 1
\* the caller names the class the target document has
ObjectClass(id) ==
  IF id \in DOMAIN store["task"]
  THEN FieldVal(store["task"][id], <<"_class">>).s
  ELSE ClassOf(id)

CreateDoc ==
  \E c \in {"C", "E"}, a \in CreatePayloads :
    tx([BaseTx("TxCreateDoc", "d9", c, "u1", Now) EXCEPT !.attributes = a])

RemoveDoc ==
  \E id \in TargetIds : tx(BaseTx("TxRemoveDoc", id, ObjectClass(id), "u1", Now))

UpdateDoc ==
  \E id \in TargetIds, o \in UpdatePayloads, r \in BOOLEAN :
    tx([BaseTx("TxUpdateDoc", id, ObjectClass(id), "u1", Now)
          EXCEPT !.operations = o, !.retrieve = r])

MixinUpdate ==
  \E id \in TargetIds, a \in MixinPayloads :
    tx([BaseTx("TxMixin", id, ObjectClass(id), "u1", Now)
          EXCEPT !.mixin = "M", !.attributes = a])

PutBag ==
  \E id \in TargetIds :
    tx([BaseTx("TxPutBag", id, ObjectClass(id), "u1", Now)
          EXCEPT !.bag = "bag", !.key = "k", !.value = Str("v")])

Find == \E c \in {"C", "D1", "E", "M"}, q \in Queries : findAll(c, q)

Next == CreateDoc \/ RemoveDoc \/ UpdateDoc \/ MixinUpdate \/ PutBag \/ Find

Spec == Init /\ [][Next]_vars

----------------------------------------------------------------------------
(* Pattern filters: one stored name, one $like query *)

PatChars == {"a", "A", "b", ".", "%"}
StrChars == {"a", "A", "b", "."}
SeqsUpTo(S, n) == UNION {[1..k -> S] : k \in 0..n}

InitLike ==
  /\ \E name \in SeqsUpTo(StrChars, MaxStrLen) :
       store = [d \in Domains |-> [i \in {"d1"} |-> Stored("D1", name, <<>>)]]
  /\ ops = 0
  /\ lastTx = NoTx
  /\ pre = store
  /\ result = Empty
  /\ found = NoFind
  /\ batch = [b \in Batches |-> NoBatch]
  /\ reads = <<>>

NotX == Leaf(<<"$ne">>, Text(<<"x">>))

\* { name: { $like: p } }, with a second condition after or before it
LikeQuery(p, shape) ==
  <<Node(<<"name">>,
         CASE shape = "like" -> <<Leaf(<<"$like">>, Text(p))>>
           [] shape = "likeNe" -> <<Leaf(<<"$like">>, Text(p)), NotX>>
           [] shape = "neLike" -> <<NotX, Leaf(<<"$like">>, Text(p))>>)>>

\* a find changes nothing in the store: one query per stored name covers all
LikeFind ==
  \E p \in SeqsUpTo(PatChars, MaxPatLen), shape \in {"like", "likeNe", "neLike"} :
    ~found.called /\ findAll("D1", LikeQuery(p, shape))

NextLike == LikeFind

SpecLike == InitLike /\ [][NextLike]_vars

----------------------------------------------------------------------------
(* The $move batch running op by op beside other calls on the document *)

InitMove ==
  /\ \E items \in SeqsUpTo(Elems, MaxArr) :
       store = [d \in Domains |-> [i \in {"d1"} |-> Stored("D1", <<"a">>, items)]]
  /\ ops = 0
  /\ lastTx = NoTx
  /\ pre = store
  /\ result = Empty
  /\ found = NoFind
  /\ batch = [b \in Batches |-> NoBatch]
  /\ reads = <<>>

By(b) == IF b = "b1" THEN "u1" ELSE "u2"
On(b) == IF b = "b1" THEN 1 ELSE 2

MoveTx(cls, b, v, p) ==
  IF cls = "TxUpdateDoc"
  THEN [BaseTx("TxUpdateDoc", "d1", "D1", By(b), On(b))
          EXCEPT !.operations = Move("items", v, p)]
  ELSE [BaseTx("TxMixin", "d1", "D1", By(b), On(b))
          EXCEPT !.mixin = "M", !.attributes = Move("items", v, p)]

\* the handler translates the transaction and hands the batch to the store
Submit(b, cls, v, p) ==
  /\ batch[b].state = "idle"
  /\ LET t == MoveTx(cls, b, v, p)
         c == txCall(t)
     IN batch' = [batch EXCEPT ![b] =
                    IF c.call = "bulkWrite"
                    THEN [state |-> "running", tx |-> t, updates |-> c.updates, pc |-> 1]
                    ELSE [state |-> "failed", tx |-> t, updates |-> <<>>, pc |-> 0]]
  /\ UNCHANGED <<store, ops, lastTx, pre, result, found, reads>>

\* the store runs the batch's next operation, atomically on the document
Step(b) ==
  /\ batch[b].state = "running"
  /\ LET t == batch[b].tx
         dom == getDomain(t.objectClass)
         r == updateOne(store[dom], t.objectId, batch[b].updates[batch[b].pc])
     IN /\ store' = [store EXCEPT ![dom] = r.coll]
        /\ batch' = [batch EXCEPT ![b] =
                       IF ~r.ok THEN [@ EXCEPT !.state = "failed"]
                       ELSE IF @.pc = Len(@.updates) THEN [@ EXCEPT !.state = "done"]
                       ELSE [@ EXCEPT !.pc = @ + 1]]
  /\ UNCHANGED <<ops, lastTx, pre, result, found, reads>>

\* a plain read of the document
Read ==
  /\ Len(reads) < MaxReads
  /\ reads' = Append(reads,
                     [items |-> FieldVal(store["task"]["d1"], <<"items">>).a,
                      state |-> batch["b1"].state,
                      pc |-> batch["b1"].pc])
  /\ UNCHANGED <<store, ops, lastTx, pre, result, found, batch>>

SubmitUpdateMove(b) ==
  \E v \in Elems, p \in Positions : Submit(b, "TxUpdateDoc", v, p)

SubmitMixinMove(b) ==
  \E v \in Elems, p \in Positions : Submit(b, "TxMixin", v, p)

NextReposition ==
  \/ SubmitUpdateMove("b1")
  \/ SubmitMixinMove("b1")
  \/ Step("b1")
  \/ Read

SpecReposition == InitMove /\ [][NextReposition]_vars

NextRace ==
  \E b \in Batches : SubmitUpdateMove(b) \/ SubmitMixinMove(b) \/ Step(b)

SpecRace == InitMove /\ [][NextRace]_vars

----------------------------------------------------------------------------
(* Properties of the adapter serving one call at a time (Spec) *)

Existing(t) == t.objectId \in DOMAIN pre[getDomain(t.objectClass)]
Target == store[getDomain(lastTx.objectClass)][lastTx.objectId]
Payload(t) == IF t._class = "TxMixin" THEN t.attributes ELSE t.operations
Prefix(t) == IF t._class = "TxMixin" THEN <<t.mixin>> ELSE <<>>
Stamped(doc, t) ==
  /\ FieldVal(doc, <<"modifiedBy">>) = Str(t.modifiedBy)
  /\ FieldVal(doc, <<"modifiedOn">>) = Num(t.modifiedOn)
\* the handler ran to its end: nothing was thrown
Applied == result.kind \notin {"TypeError", "MongoError"}
SetOf(seq) == {seq[i] : i \in 1..Len(seq)}
ClassIn(doc, classes) == FieldVal(doc, <<"_class">>).s \in classes

\* C1: find(C, f) restricts the class field to the descendants of C only
\* when f does not constrain the class field itself; a class constraint of
\* f (one class, or a set) is kept as given.  So the rows are exactly the
\* stored documents that satisfy f and, when f names no class, belong to a
\* descendant of C; find(C, {}) returns the instances of C, D1 and D2 and
\* none of E.
C1_ClassConstraintOnlyWhenAbsent ==
  (found.called /\ found.clazz \in Classes /\ ~found.error) =>
    LET coll == store[getDomain(found.clazz)]
    IN found.ids =
         {id \in DOMAIN coll :
            /\ Matches(coll[id], found.query)
            /\ \/ HasKey(found.query, <<"_class">>)
               \/ ClassIn(coll[id], SetOf(getDescendants(found.clazz)))}

\* C3: UpdateDoc, MixinUpdate and PutBag applied to an existing document
\* leave its modifiedBy / modifiedOn equal to the transaction's.
C3_EveryMutationStamps ==
  (/\ lastTx._class \in {"TxUpdateDoc", "TxMixin", "TxPutBag"}
   /\ Existing(lastTx)
   /\ Applied) =>
    Stamped(Target, lastTx)

\* C4: after a MixinUpdate for mixin M on an existing document of a class
\* under M's base class, with a plain map (also the empty one) or an
\* operator map, the document carries the key M with at least one field,
\* and find(M, {}) returns it.
C4_FacetPresentAfterMixinUpdate ==
  (/\ lastTx._class = "TxMixin"
   /\ Existing(lastTx)
   /\ Applied
   /\ lastTx.objectClass \in SetOf(getDescendants(getBaseClass(lastTx.mixin)))) =>
    /\ <<lastTx.mixin>> \in Target.objs
    /\ \E p \in DOMAIN Target.f : Len(p) = 2 /\ p[1] = lastTx.mixin
    /\ lastTx.objectId \in FindRows(store, lastTx.mixin, <<>>).ids

\* C5: an UpdateDoc with retrieve set, whatever its payload, returns
\* { object: D } with D the document after this update; when no document
\* has the identifier the object is absent and nothing is thrown.
C5_RetrieveReturnsPostImage ==
  (lastTx._class = "TxUpdateDoc" /\ lastTx.retrieve) =>
    /\ result.kind = "object"
    /\ IF Existing(lastTx)
       THEN result.present /\ result.object = Target /\ Stamped(result.object, lastTx)
       ELSE ~result.present

\* C7: for an UpdateDoc or MixinUpdate with a generic operator map, the
\* assignments of the payload's own $set clause are applied together with
\* modifiedBy / modifiedOn and with the payload's other operators.
C7_FieldSetClauseMerged ==
  (/\ lastTx._class \in {"TxUpdateDoc", "TxMixin"}
   /\ Existing(lastTx)
   /\ isOperator(Payload(lastTx))
   /\ Payload(lastTx)[1].k # <<"$move">>
   /\ HasKey(Payload(lastTx), <<"$set">>)) =>
    LET payload == Payload(lastTx)
        assigned == Entry(payload, <<"$set">>).m
    IN /\ Stamped(Target, lastTx)
       /\ \A i \in 1..Len(assigned) :
            FieldVal(Target, Prefix(lastTx) \o assigned[i].k) = assigned[i].v
       /\ HasKey(payload, <<"$push">>) =>
            \A i \in 1..Len(Entry(payload, <<"$push">>).m) :
              LET e == Entry(payload, <<"$push">>).m[i]
                  arr == FieldVal(Target, Prefix(lastTx) \o e.k).a
              IN arr # <<>> /\ arr[Len(arr)] = e.v.s

\* C8: a MixinUpdate for M with $move on field F does not fail before it
\* reaches the store: it submits the two-step batch against '<M>.<F>' and
\* ends with the value at the given index of that array.
C8_MixinMoveReachesStore ==
  (/\ lastTx._class = "TxMixin"
   /\ isOperator(lastTx.attributes)
   /\ lastTx.attributes[1].k = <<"$move">>) =>
    LET keyval == lastTx.attributes[1].m
        desc == keyval[1].m
        arr == FieldVal(Target, <<lastTx.mixin>> \o keyval[1].k).a
    IN /\ result.kind # "TypeError"
       /\ txCall(lastTx).call = "bulkWrite"
       /\ Existing(lastTx) =>
            /\ Len(arr) > DescPosition(desc).n
            /\ arr[DescPosition(desc).n + 1] = DescValue(desc).s

----------------------------------------------------------------------------
(* Properties of pattern filters (SpecLike) *)

RECURSIVE LikeTest(_, _)
\* p with each '%' standing for any sequence and every other character for
\* itself up to case, against the whole of s
LikeTest(p, s) ==
  IF p = <<>> THEN s = <<>>
  ELSE IF Head(p) = "%"
  THEN \E k \in 0..Len(s) : LikeTest(Tail(p), SubSeq(s, k + 1, Len(s)))
  ELSE s # <<>> /\ Lower(Head(p)) = Lower(Head(s)) /\ LikeTest(Tail(p), Tail(s))

\* C6: a filter field whose object has $like as its sole key matches a
\* stored string exactly when the whole string, ignoring case, is the
\* pattern with each '%' replaced by any sequence and every other character
\* literal; any other object-valued field reaches the store unchanged.
C6_LikeIsAnchoredLiteralMatch ==
  (found.called /\ found.query # <<>> /\ found.query[1].o) =>
    LET e == found.query[1]
        doc == store[getDomain(found.clazz)]["d1"]
    IN IF Len(e.m) = 1 /\ e.m[1].k = <<"$like">>
       THEN /\ ~found.error
            /\ "d1" \in found.ids <=> LikeTest(e.m[1].v.a, FieldVal(doc, e.k).a)
       ELSE Entry(translateQuery(found.clazz, found.query), e.k) = e

----------------------------------------------------------------------------
(* Properties of the $move batch (SpecReposition, SpecRace) *)

Items(st) == FieldVal(st["task"]["d1"], <<"items">>).a
Distinct(seq) == \A i, j \in 1..Len(seq) : seq[i] = seq[j] => i = j
\* the value and the position a batch's transaction names
MovedValue(b) == batch[b].tx.operations[1].m[1].m[1].v.s
MovedTo(b) == batch[b].tx.operations[1].m[1].m[2].v.n
IsUpdateMove(b) ==
  batch[b].state \in {"running", "done"} /\ batch[b].tx._class = "TxUpdateDoc"
\* the array holds distinct elements, the moved one among them, and the
\* position lies inside it
Repositions(b, A) ==
  /\ IsUpdateMove(b)
  /\ Distinct(A)
  /\ MovedValue(b) \in SetOf(A)
  /\ MovedTo(b) < Len(A)
Others(seq, v) == SelectSeq(seq, LAMBDA x : x # v)
Placed(seq, v, p) == SubSeq(seq, 1, p) \o <<v>> \o SubSeq(seq, p + 1, Len(seq))

\* C2: an UpdateDoc with $move of V to P on an array A of distinct elements
\* holding V, 0 <= P < Len(A): the batch pulls before it sets and pushes,
\* and once it completes V is at index P, the other elements keep their
\* relative order, the length is unchanged and modifiedBy / modifiedOn are
\* the transaction's.
C2_RepositionResult ==
  Repositions("b1", Items(pre)) =>
    LET b == batch["b1"]
        A == Items(pre)
        now == Items(store)
    IN /\ Len(b.updates) = 2
       /\ b.updates[1][1].k = <<"$pull">>
       /\ HasKey(b.updates[2], <<"$set">>) /\ HasKey(b.updates[2], <<"$push">>)
       /\ b.state = "done" =>
            /\ now[MovedTo("b1") + 1] = MovedValue("b1")
            /\ Others(now, MovedValue("b1")) = Others(A, MovedValue("b1"))
            /\ Len(now) = Len(A)
            /\ Stamped(store["task"]["d1"], b.tx)

C2_Witness ==
  /\ Repositions("b1", Items(pre))
  /\ batch["b1"].state = "done"
  /\ Items(pre) = <<"A", "B", "C">>
  /\ Items(store) = <<"B", "A", "C">>

\* C9: beside one $move batch, every plain read of the document sees the
\* array in one of three states: the original (before the pull ran), the
\* array without V (between the pull and the push, and only then), or the
\* final array with V at P (after the batch completed).
C9_ReadsSeeThreeStates ==
  LET A == Items(pre)
  IN /\ batch["b1"].state = "idle" => \A i \in 1..Len(reads) : reads[i].items = A
     /\ Repositions("b1", A) =>
          LET v == MovedValue("b1")
              mid == Others(A, v)
              fin == Placed(mid, v, MovedTo("b1"))
          IN \A i \in 1..Len(reads) :
               LET r == reads[i]
               IN /\ r.items \in {A, mid, fin}
                  /\ r.state = "done" => r.items = fin
                  /\ v \notin SetOf(r.items) => r.state = "running" /\ r.pc = 2
                  /\ (r.state = "idle" \/ (r.state = "running" /\ r.pc = 1)) =>
                       r.items = A

C9_Witness ==
  /\ Repositions("b1", Items(pre))
  /\ Len(reads) = 2
  /\ reads[1].state = "running" /\ MovedValue("b1") \notin SetOf(reads[1].items)
  /\ reads[2].state = "done" /\ reads[2].items[MovedTo("b1") + 1] = MovedValue("b1")
  /\ reads[2].items # Items(pre)

Count(seq, e) == Cardinality({i \in 1..Len(seq) : seq[i] = e})
SameBag(x, y) == \A e \in SetOf(x) \cup SetOf(y) : Count(x, e) = Count(y, e)
AllDone == \A b \in Batches : batch[b].state = "done"

\* C10 as stated: whatever the interleaving of the batches repositioning
\* elements of the array, once all have completed the array holds the same
\* multiset of elements as before.
C10_BagPreservedByAnyBatches ==
  (AllDone /\ \A b \in Batches : Repositions(b, Items(pre))) =>
    SameBag(Items(store), Items(pre))

\* C10 amended: the same, for batches that move pairwise different
\* elements of the array.
C10_BagPreservedByBatchesOfDifferentElements ==
  (/\ AllDone
   /\ \A b \in Batches : Repositions(b, Items(pre))
   /\ \A b1, b2 \in Batches : b1 # b2 => MovedValue(b1) # MovedValue(b2)) =>
    SameBag(Items(store), Items(pre))

C10_Witness ==
  /\ AllDone
  /\ \A b \in Batches : Repositions(b, Items(pre))
  /\ MovedValue("b1") # MovedValue("b2")
  /\ Items(store) # Items(pre)
  /\ Len(Items(pre)) = MaxArr

====
